---- MODULE Spec2Model ----
(***************************************************************************)
(* A model of the GPU batch pipeline: gpu_script.py (batch scheduler,      *)
(* per-sample orchestration, resource monitor, metrics extractor,          *)
(* aggregator), pipeline_functions.py (stage runners) and                  *)
(* pipeline_script.py (single-sample pipeline).                            *)
(*                                                                         *)
(*   Spec          a batch run of gpu_script.main                          *)
(*   SpecMonitor   one call of get_gpu_usage_monitor, iteration by         *)
(*                 iteration                                               *)
(*   SpecExtract   one call of parse_parabricks_output                     *)
(*   SpecPipeline  one run of pipeline_script.main                         *)
(***************************************************************************)
EXTENDS Integers, Sequences, FiniteSets, TLC

\* ---------------------------------------------------------------- bounds
\* Number of identifiers in the manifest.
NSamples == 2
\* Number of file names of LOG_DIR a merge_metrics call is checked with.
NFiles == 3
\* The monitoring window process_sample asks for, in loop iterations of the
\* monitor (it passes 180 s, and every iteration sleeps 1 s).
MonitorDuration == 2
\* The longest window get_gpu_usage_monitor is called with in SpecMonitor.
MaxDuration == 4
\* The longest stage output parse_parabricks_output is given, in fragments.
MaxFragments == 3
\* The number of chunks response.iter_content gives for a whole BAM file.
NChunks == 2

Samples == 1..NSamples

\* Python's None, for values that are otherwise natural numbers.
None == -1

\* Python truthiness of an optional count: None and 0 are falsy.
Truthy(x) == x /= None /\ x /= 0

VARIABLES
    \* ---- environment of one run
    condaEnvOk,     \* os.environ["CONDA_DEFAULT_ENV"] = "bioinfo_env"
    fastq,          \* per sample: os.path.exists of <sample>_1 and _2.fastq.gz
    concurrent,     \* --concurrent: max_workers of the sample pool
    probeOutputs,   \* what nvidia-smi can print on this machine
    duration,       \* the duration get_gpu_usage_monitor is called with
    \* ---- main thread (gpu_script.main / process_samples)
    mainPc,
    nsub,           \* number of manifest entries submitted so far
    yielded,        \* futures the as_completed loop has handled
    logged,         \* samples whose exception the loop has logged
    merged,         \* rows of the merged report (<< >> until written)
    realclock,      \* TRUE once the timing report is written
    \* ---- per sample (process_sample)
    pc,
    handed,         \* times process_sample was invoked for the sample
    TMP_DIR,        \* pipeline_functions.TMP_DIR: 0 = cwd/tmp, s = tmp/s
    logDir,         \* directory of log_file in the current stage call
    fq2bamRet,      \* what run_parabricks_fq2bam returned
    hcRet,          \* what run_parabricks_haplotypecaller returned
    flagstat,       \* what samtools flagstat printed for the sample
    metricsFile,    \* logs/<sample>_metrics.csv: the row, or NoFile
    \* ---- per sample monitor task (gpu_future)
    mon,            \* "none", "running", "done"
    monResult,      \* what get_gpu_usage_monitor returned
    \* ---- one call of get_gpu_usage_monitor (SpecMonitor)
    monitor,        \* iterations done, running peaks, returned value
    \* ---- one call of parse_parabricks_output (SpecExtract)
    output_str,     \* the stage output, a sequence of fragments
    metrics,        \* the metrics dict
    exPc,           \* the statement the extractor is at
    ruleIdx,        \* the rule the extractor's for loop is at
    \* ---- one run of pipeline_script.main (SpecPipeline)
    psPc,
    single_end,     \* --single-end
    files,          \* the files of the run that exist
    psFq2bam,       \* what run_parabricks_fq2bam returned to main
    psHc,           \* what run_parabricks_haplotypecaller returned to main
    psLog,          \* what main has logged
    chunks,         \* chunks held by <sample>.bam and <sample>.bam.incomplete
    \* ---- the stage a get_gpu_usage_monitor call instruments (SpecMonitor)
    stageFinished,  \* TRUE once the foreground stage has returned
    \* ---- one call of merge_metrics (SpecMerge)
    logFiles,       \* the files of LOG_DIR, by name
    mgPc,           \* the statement merge_metrics is at
    unread,         \* the files the listing has not yet given
    merged_rows,
    header_written,
    \* ---- one call of parse_quality_reports (SpecExtract)
    reports,        \* the three report files of the sample
    quality_metrics,\* the metrics dict of parse_quality_reports
    qPc,            \* the statement parse_quality_reports is at
    \* ---- the record process_sample writes (SpecRecord)
    rowInputs,      \* the locals of process_sample the row is made of
    rowWritten      \* the data row of the per-sample file, << >> before

envVars     == <<condaEnvOk, fastq, concurrent, probeOutputs, duration>>
mainVars    == <<mainPc, nsub, yielded, logged, merged, realclock>>
sampleVars  == <<pc, handed, TMP_DIR, logDir, fq2bamRet, hcRet, flagstat, metricsFile>>
monVars     == <<mon, monResult>>
batchVars   == <<mainVars, sampleVars, monVars>>
extractVars == <<output_str, metrics, exPc, ruleIdx>>
scriptVars  == <<psPc, single_end, files, psFq2bam, psHc, psLog, chunks>>
mergeVars   == <<logFiles, mgPc, unread, merged_rows, header_written>>
qualityVars == <<reports, quality_metrics, qPc>>
recordVars  == <<rowInputs, rowWritten>>
moreVars    == <<stageFinished, mergeVars, qualityVars, recordVars>>
\* What a step of the batch run leaves alone besides the batch's own state.
otherVars   == <<envVars, monitor, extractVars, scriptVars, moreVars>>
vars        == <<envVars, batchVars, monitor, extractVars, scriptVars, moreVars>>

\* ------------------------------------------------------------- constants
manifest == [i \in 1..NSamples |-> i]

NoFile == << >>
NoRet  == << >>
NoResult == << >>

\* What one nvidia-smi call gives: its exit status and the lines it printed,
\* one <<utilization, memory>> per GPU. BadLine is a line that
\* map(int, line.split(',')) cannot read.
BadLine == <<None, None>>
ProbeOut(rc, lines) == [rc |-> rc, lines |-> lines]
BatchProbeOutputs == { ProbeOut(0, <<<<1, 1>>>>), ProbeOut(1, << >>) }
MonitorProbeOutputs ==
    { ProbeOut(0, <<<<30, 100>>>>), ProbeOut(0, <<<<70, 50>>>>),
      ProbeOut(0, <<<<10, 20>>, <<40, 10>>>>), ProbeOut(0, <<<<90, 10>>, BadLine>>),
      ProbeOut(0, << >>), ProbeOut(1, << >>) }

\* What samtools flagstat gives: its exit status and the counts of its
\* "in total" and "properly paired" lines (None: the line is not printed).
Flagstat(rc, total, paired) == [rc |-> rc, total |-> total, paired |-> paired]
NoFlagstat == Flagstat(None, None, None)
FlagstatOutputs ==
    { Flagstat(0, 200, 180), Flagstat(0, 0, 0), Flagstat(1, None, None) }

\* How one external stage invocation (docker run ... pbrun) can end:
\* exit status zero, a non-zero exit status (CalledProcessError), or
\* subprocess.run raising another error (docker cannot be started).
StageExits == {"zero", "nonzero", "oserror"}

Terminal(p) == p \in {"done", "skipped", "failed", "raised", "sysexit"}

Running == { s \in Samples : pc[s] \notin {"unsubmitted", "queued"} /\ ~Terminal(pc[s]) }

Max(a, b) == IF a >= b THEN a ELSE b

RECURSIVE GCD(_, _)
GCD(a, b) == IF b = 0 THEN a ELSE GCD(b, a % b)

\* A Python float that is the quotient n/d, kept as a fraction in lowest terms.
Float(n, d) == LET g == GCD(n, d) IN <<n \div g, d \div g>>

\* ------------------------------------------- idle values of the other parts
\* The state of the monitor loop: the iterations done, the running maxima,
\* and the value returned once it has returned (NoResult before).
MonitorState(n, pu, pm, result) ==
    [elapsed |-> n, peak_util |-> pu, peak_mem |-> pm, result |-> result]

\* The keys parse_parabricks_output can set, and a key that is not set.
MetricKeys ==
    { "bwa_time", "sorting_time", "bqsr_time", "time_reading", "monitor_time",
      "regions_processed", "regions_per_minute", "min_rate", "max_rate", "avg_rate" }
NoMetric == << >>

MonitorIdle ==
    monitor = MonitorState(0, 0, 0, NoResult)

ExtractIdle ==
    /\ output_str = << >>
    /\ metrics = [k \in MetricKeys |-> NoMetric]
    /\ exPc = "idle"
    /\ ruleIdx = 1

ScriptIdle ==
    /\ psPc = "idle"
    /\ single_end = FALSE
    /\ files = {}
    /\ psFq2bam = NoRet
    /\ psHc = NoRet
    /\ psLog = << >>
    /\ chunks = [n \in {"raw_bam", "raw_bam.incomplete"} |-> 0]

BatchIdle ==
    /\ mainPc = "idle"
    /\ nsub = 0
    /\ yielded = {}
    /\ logged = {}
    /\ merged = << >>
    /\ realclock = FALSE
    /\ pc = [s \in Samples |-> "unsubmitted"]
    /\ handed = [s \in Samples |-> 0]
    /\ TMP_DIR = 0
    /\ logDir = [s \in Samples |-> 0]
    /\ fq2bamRet = [s \in Samples |-> NoRet]
    /\ hcRet = [s \in Samples |-> NoRet]
    /\ flagstat = [s \in Samples |-> NoFlagstat]
    /\ metricsFile = [s \in Samples |-> NoFile]
    /\ mon = [s \in Samples |-> "none"]
    /\ monResult = [s \in Samples |-> NoResult]

StageIdle == stageFinished = FALSE

MergeIdle ==
    /\ logFiles = << >>
    /\ mgPc = "idle"
    /\ unread = {}
    /\ merged_rows = << >>
    /\ header_written = FALSE

\* The keys parse_quality_reports can set.
QualityKeys == { "mean_insert_size", "gc_bias", "mean_quality" }

QualityIdle ==
    /\ reports = << >>
    /\ quality_metrics = [k \in QualityKeys |-> NoMetric]
    /\ qPc = "idle"

RecordIdle ==
    /\ rowInputs = << >>
    /\ rowWritten = << >>

MoreIdle ==
    /\ StageIdle
    /\ MergeIdle
    /\ QualityIdle
    /\ RecordIdle

EnvIdle ==
    /\ condaEnvOk = TRUE
    /\ fastq = [s \in Samples |-> <<TRUE, TRUE>>]
    /\ concurrent = 1
    /\ probeOutputs = BatchProbeOutputs
    /\ duration = MonitorDuration

\* ------------------------------------------------------------------ Init
Init ==
    /\ condaEnvOk \in BOOLEAN
    /\ fastq \in [Samples -> BOOLEAN \X BOOLEAN]
    /\ concurrent \in 1..NSamples
    /\ probeOutputs = BatchProbeOutputs
    /\ duration = MonitorDuration
    /\ mainPc = "start"
    /\ nsub = 0
    /\ yielded = {}
    /\ logged = {}
    /\ merged = << >>
    /\ realclock = FALSE
    /\ pc = [s \in Samples |-> "unsubmitted"]
    /\ handed = [s \in Samples |-> 0]
    /\ TMP_DIR = 0
    /\ logDir = [s \in Samples |-> 0]
    /\ fq2bamRet = [s \in Samples |-> NoRet]
    /\ hcRet = [s \in Samples |-> NoRet]
    /\ flagstat = [s \in Samples |-> NoFlagstat]
    /\ metricsFile = [s \in Samples |-> NoFile]
    /\ mon = [s \in Samples |-> "none"]
    /\ monResult = [s \in Samples |-> NoResult]
    /\ MonitorIdle
    /\ ExtractIdle
    /\ ScriptIdle
    /\ MoreIdle

\* ------------------------------------------------- the sample worker pool
\* A pool that takes up every queued task at once.
WorkerFree_Unbounded == TRUE

\* ThreadPoolExecutor(max_workers=concurrent): a queued task is taken up only
\* by a worker, and there are at most `concurrent` workers.
WorkerFree == Cardinality(Running) < concurrent

\* The pool's work queue is first in, first out.
FirstQueued(s) ==
    \E i \in 1..nsub :
        /\ manifest[i] = s
        /\ \A j \in 1..(i - 1) : pc[manifest[j]] /= "queued"

\* A worker takes the next task and calls process_sample(sample, ...).
StartTask(s) ==
    /\ pc[s] = "queued"
    /\ FirstQueued(s)
    /\ WorkerFree
    /\ pc' = [pc EXCEPT ![s] = "started"]
    /\ handed' = [handed EXCEPT ![s] = @ + 1]
    /\ UNCHANGED <<TMP_DIR, logDir, fq2bamRet, hcRet, flagstat, metricsFile>>
    /\ UNCHANGED <<mainVars, monVars, otherVars>>

\* ------------------------------------------------------- process_sample
\* A process_sample without the check of the input files.
Preflight_NoInputCheck(envOk, fastq1, fastq2, total_reads) ==
    IF ~envOk THEN "sysexit"
    ELSE IF total_reads = None THEN "failed"
    ELSE "set_tmp"

\* How the first part of process_sample ends; none of it touches anything
\* another thread reads. check_conda_env exits (SystemExit in the worker)
\* when the process does not run in bioinfo_env; a missing FASTQ file skips
\* the sample; count_reads giving None ends it.
Preflight(envOk, fastq1, fastq2, total_reads) ==
    IF ~envOk THEN "sysexit"
    ELSE IF ~fastq1 \/ ~fastq2 THEN "skipped"
    ELSE IF total_reads = None THEN "failed"
    ELSE "set_tmp"

\* The read count count_reads gives for a FASTQ file it can read.
TotalReads == 4

\* check_conda_env, the input check and count_reads.
InputCheck(s) ==
    /\ pc[s] = "started"
    /\ \E total_reads \in {None, TotalReads} :
         pc' = [pc EXCEPT ![s] = Preflight(condaEnvOk, fastq[s][1], fastq[s][2], total_reads)]
    /\ UNCHANGED <<handed, TMP_DIR, logDir, fq2bamRet, hcRet, flagstat, metricsFile>>
    /\ UNCHANGED <<mainVars, monVars, otherVars>>

\* pipeline_functions.TMP_DIR = os.path.abspath("tmp/<sample>"), an
\* assignment to a module attribute that every worker thread shares; then
\* executor.submit(get_gpu_usage_monitor, 180) on the sample's own one-worker
\* executor starts the monitor task.
SetTmpDir(s) ==
    /\ pc[s] = "set_tmp"
    /\ TMP_DIR' = s
    /\ mon' = [mon EXCEPT ![s] = "running"]
    /\ pc' = [pc EXCEPT ![s] = "fq2bam_log"]
    /\ UNCHANGED <<handed, logDir, fq2bamRet, hcRet, flagstat, metricsFile>>
    /\ UNCHANGED monResult
    /\ UNCHANGED <<mainVars, otherVars>>

\* ------------------------------------------------------- the stage runners
\* What a stage runner returns: (full_output, True) when the invocation
\* exits zero, (e.stderr, False) on CalledProcessError.
StageReturn(exit) ==
    IF exit = "zero" THEN <<"full_output", TRUE>> ELSE <<"stderr", FALSE>>

\* The log the container wrote to <mounted tmp>/<name> is found at
\* os.path.join(TMP_DIR as read for log_file, <name>) only when both reads of
\* TMP_DIR gave the same directory; open(log_file) raises otherwise.
LogReadable(logd, mountd) == logd = mountd

\* A stage runner that lets every failure of the invocation escape.
StageRaises_AnyFailure(logd, mountd, exit) ==
    \/ exit /= "zero"
    \/ ~LogReadable(logd, mountd)

\* A stage runner lets an error escape when subprocess.run raises something
\* that is not CalledProcessError, or when open(log_file) fails.
StageRaises(logd, mountd, exit) ==
    \/ exit = "oserror"
    \/ exit = "zero" /\ ~LogReadable(logd, mountd)

\* An orchestration that goes on to stage 2 whatever stage 1 returned.
AfterStage1_NoCheck(ret) == "hc_log"

\* process_sample after stage 1: "if not success: return", otherwise the
\* metrics are parsed and run_parabricks_haplotypecaller is called.
AfterStage1(ret) == IF ~ret[2] THEN "join_failed" ELSE "hc_log"

\* An orchestration that goes on whatever stage 2 returned.
AfterStage2_NoCheck(ret) == "join"

\* process_sample after stage 2: "if not success_hc: return".
AfterStage2(ret) == IF ~ret[2] THEN "join_failed" ELSE "join"

\* The first statement of a stage runner that reads the shared TMP_DIR:
\* "log_file = os.path.join(TMP_DIR, ...)".
StageLogPath(s) ==
    /\ pc[s] \in {"fq2bam_log", "hc_log"}
    /\ logDir' = [logDir EXCEPT ![s] = TMP_DIR]
    /\ pc' = [pc EXCEPT ![s] = IF pc[s] = "fq2bam_log" THEN "fq2bam_cmd" ELSE "hc_cmd"]
    /\ UNCHANGED <<handed, TMP_DIR, fq2bamRet, hcRet, flagstat, metricsFile>>
    /\ UNCHANGED <<mainVars, monVars, otherVars>>

\* An alignment stage whose invocation never returns.
Fq2bamRun_Stuck(s) ==
    /\ pc[s] = "fq2bam_cmd"
    /\ FALSE
    /\ UNCHANGED vars

\* The rest of run_parabricks_fq2bam and what process_sample makes of it:
\* cmd mounts os.path.abspath(TMP_DIR), read a second time, as /data/tmp; the
\* container runs; the log is read; the runner returns or raises, and
\* process_sample looks at the success flag. A return or an exception leaves
\* the locals of process_sample behind.
Fq2bamRun(s) ==
    /\ pc[s] = "fq2bam_cmd"
    /\ \E exit \in StageExits :
         IF StageRaises(logDir[s], TMP_DIR, exit)
         THEN /\ pc' = [pc EXCEPT ![s] = "join_raised"]
              /\ UNCHANGED fq2bamRet
         ELSE LET ret == StageReturn(exit) IN
              /\ pc' = [pc EXCEPT ![s] = AfterStage1(ret)]
              /\ fq2bamRet' = [fq2bamRet EXCEPT ![s] =
                                 IF AfterStage1(ret) = "join_failed" THEN NoRet ELSE ret]
    /\ logDir' = [logDir EXCEPT ![s] = 0]
    /\ UNCHANGED <<handed, TMP_DIR, hcRet, flagstat, metricsFile>>
    /\ UNCHANGED <<mainVars, monVars, otherVars>>

\* The same for run_parabricks_haplotypecaller.
HcRun(s) ==
    /\ pc[s] = "hc_cmd"
    /\ \E exit \in StageExits :
         IF StageRaises(logDir[s], TMP_DIR, exit)
         THEN /\ pc' = [pc EXCEPT ![s] = "join_raised"]
              /\ fq2bamRet' = [fq2bamRet EXCEPT ![s] = NoRet]
              /\ UNCHANGED hcRet
         ELSE LET ret == StageReturn(exit) IN
              /\ pc' = [pc EXCEPT ![s] = AfterStage2(ret)]
              /\ hcRet' = [hcRet EXCEPT ![s] =
                             IF AfterStage2(ret) = "join_failed" THEN NoRet ELSE ret]
              /\ fq2bamRet' = [fq2bamRet EXCEPT ![s] =
                                 IF AfterStage2(ret) = "join_failed" THEN NoRet ELSE @]
    /\ logDir' = [logDir EXCEPT ![s] = 0]
    /\ UNCHANGED <<handed, TMP_DIR, flagstat, metricsFile>>
    /\ UNCHANGED <<mainVars, monVars, otherVars>>

\* A with block that waits for the monitor task only at its end, not when a
\* return or an exception leaves it.
JoinMonitor_DetachOnFailure(s) ==
    /\ pc[s] \in {"join", "join_failed", "join_raised"}
    /\ pc[s] = "join" => mon[s] = "done"
    /\ pc' = [pc EXCEPT ![s] = CASE pc[s] = "join" -> "derived"
                                 [] pc[s] = "join_failed" -> "failed"
                                 [] OTHER -> "raised"]
    /\ monResult' = [monResult EXCEPT ![s] = IF pc[s] = "join" THEN @ ELSE NoResult]
    /\ UNCHANGED <<handed, TMP_DIR, logDir, fq2bamRet, hcRet, flagstat, metricsFile>>
    /\ UNCHANGED mon
    /\ UNCHANGED <<mainVars, otherVars>>

\* A with block that is left without waiting for the monitor task.
JoinMonitor_NoWait(s) ==
    /\ pc[s] \in {"join", "join_failed", "join_raised"}
    /\ pc' = [pc EXCEPT ![s] = CASE pc[s] = "join" -> "derived"
                                 [] pc[s] = "join_failed" -> "failed"
                                 [] OTHER -> "raised"]
    /\ monResult' = [monResult EXCEPT ![s] = IF pc[s] = "join" THEN @ ELSE NoResult]
    /\ UNCHANGED <<handed, TMP_DIR, logDir, fq2bamRet, hcRet, flagstat, metricsFile>>
    /\ UNCHANGED mon
    /\ UNCHANGED <<mainVars, otherVars>>

\* Leaving "with ThreadPoolExecutor(max_workers=1) as executor" (at its end,
\* by return or by an exception) waits for the monitor task. When
\* process_sample is left here, the monitor's future is gone.
JoinMonitor(s) ==
    /\ pc[s] \in {"join", "join_failed", "join_raised"}
    /\ mon[s] = "done"
    /\ pc' = [pc EXCEPT ![s] = CASE pc[s] = "join" -> "derived"
                                 [] pc[s] = "join_failed" -> "failed"
                                 [] OTHER -> "raised"]
    /\ monResult' = [monResult EXCEPT ![s] = IF pc[s] = "join" THEN @ ELSE NoResult]
    /\ UNCHANGED <<handed, TMP_DIR, logDir, fq2bamRet, hcRet, flagstat, metricsFile>>
    /\ UNCHANGED mon
    /\ UNCHANGED <<mainVars, otherVars>>

\* ------------------------------------------------------ the GPU monitor
\* nvidia-smi failed (check=True raises) or printed a line int() rejects.
RECURSIVE HasBadLine(_)
HasBadLine(lines) ==
    IF lines = << >> THEN FALSE
    ELSE Head(lines) = BadLine \/ HasBadLine(Tail(lines))

ProbeRaises(out) == out.rc /= 0 \/ HasBadLine(out.lines)

\* The running maxima after the lines of one probe output, read in order up
\* to the first line that cannot be read.
RECURSIVE PeaksAfter(_, _, _)
PeaksAfter(lines, pu, pm) ==
    IF lines = << >> \/ Head(lines) = BadLine THEN <<pu, pm>>
    ELSE PeaksAfter(Tail(lines), Max(pu, Head(lines)[1]), Max(pm, Head(lines)[2]))

\* A monitor that returns the peaks seen so far when a probe fails.
ProbeFailureResult_Partial(pu, pm) == <<pu, pm>>

\* "except Exception: ... return None, None".
ProbeFailureResult(pu, pm) == <<None, None>>

\* One iteration of "while time.time() - start_time < duration": probe,
\* update the peaks, sleep(1); a failed probe returns at once.
MonitorIteration(m, out) ==
    LET p == IF out.rc = 0 THEN PeaksAfter(out.lines, m.peak_util, m.peak_mem)
             ELSE <<m.peak_util, m.peak_mem>> IN
    IF ProbeRaises(out)
    THEN MonitorState(m.elapsed, p[1], p[2], ProbeFailureResult(p[1], p[2]))
    ELSE MonitorState(m.elapsed + 1, p[1], p[2], NoResult)

\* The loop is left when the window has passed: "return peak_util, peak_mem".
MonitorEnd(m) == MonitorState(m.elapsed, m.peak_util, m.peak_mem, <<m.peak_util, m.peak_mem>>)

\* get_gpu_usage_monitor(d) when the probes print `outs`, one per iteration:
\* the loop runs until d iterations have passed or a probe fails.
RECURSIVE MonitorLoop(_, _, _)
MonitorLoop(m, d, outs) ==
    IF m.result /= NoResult THEN m.result
    ELSE IF m.elapsed >= d \/ outs = << >> THEN MonitorEnd(m).result
    ELSE MonitorLoop(MonitorIteration(m, Head(outs)), d, Tail(outs))

get_gpu_usage_monitor(d, outs) == MonitorLoop(MonitorState(0, 0, 0, NoResult), d, outs)

\* The sequences of n elements of S.
SeqsOfLen(S, n) == [1..n -> S]

\* The sample's monitor task returns. It shares nothing with the other
\* threads, so its whole loop is one step here.
MonitorFinish(s) ==
    /\ mon[s] = "running"
    /\ \E outs \in SeqsOfLen(probeOutputs, duration) :
         monResult' = [monResult EXCEPT ![s] = get_gpu_usage_monitor(duration, outs)]
    /\ mon' = [mon EXCEPT ![s] = "done"]
    /\ UNCHANGED <<mainVars, sampleVars, otherVars>>

\* A monitor that also stops when the stage it instruments has returned.
WindowOpen_StopWithStage(m, d, finished) == m.elapsed < d /\ ~finished

\* The loop condition "time.time() - start_time < duration": it reads the
\* clock and nothing of the stage the monitor runs beside.
WindowOpen(m, d, finished) == m.elapsed < d

\* One iteration of the loop of a get_gpu_usage_monitor call.
MonitorTick ==
    /\ monitor.result = NoResult
    /\ WindowOpen(monitor, duration, stageFinished)
    /\ \E out \in probeOutputs : monitor' = MonitorIteration(monitor, out)
    /\ UNCHANGED <<envVars, batchVars, extractVars, scriptVars, moreVars>>

\* The loop condition fails and the call returns the peaks.
MonitorReturn ==
    /\ monitor.result = NoResult
    /\ ~WindowOpen(monitor, duration, stageFinished)
    /\ monitor' = MonitorEnd(monitor)
    /\ UNCHANGED <<envVars, batchVars, extractVars, scriptVars, moreVars>>

InitMonitor ==
    /\ condaEnvOk = TRUE
    /\ fastq = [s \in Samples |-> <<TRUE, TRUE>>]
    /\ concurrent = 1
    /\ probeOutputs = MonitorProbeOutputs
    /\ duration \in 1..MaxDuration
    /\ BatchIdle
    /\ MonitorIdle
    /\ ExtractIdle
    /\ ScriptIdle
    /\ MoreIdle

\* The foreground stage that process_sample runs beside the monitor
\* returns, at whatever point of the monitor's window.
StageEnds ==
    /\ ~stageFinished
    /\ stageFinished' = TRUE
    /\ UNCHANGED <<envVars, batchVars, monitor, extractVars, scriptVars>>
    /\ UNCHANGED <<mergeVars, qualityVars, recordVars>>

NextMonitor == MonitorTick \/ MonitorReturn \/ StageEnds

SpecMonitor == InitMonitor /\ [][NextMonitor]_vars

\* ------------------------------------------- derived metrics and persist
\* count_aligned_reads: (total, properly paired) when both parsed counts are
\* truthy, (None, None) otherwise and when samtools fails.
count_aligned_reads(out) ==
    IF out.rc /= 0 THEN <<None, None>>
    ELSE IF Truthy(out.total) /\ Truthy(out.paired)
         THEN <<out.total, out.paired>>
         ELSE <<None, None>>

\* (properly_paired / total) * 100 if total > 0 else 0.
alignment_rate(total, paired) ==
    IF total > 0 THEN Float(paired * 100, total) ELSE Float(0, 1)

\* An orchestration that runs the stages again when the counts are absent.
AfterCounts_Retry(counts) ==
    IF counts[1] = None \/ counts[2] = None THEN "fq2bam_log" ELSE "persist"

\* "if total_reads_aligned is None or properly_paired_aligned is None: return".
AfterCounts(counts) ==
    IF counts[1] = None \/ counts[2] = None THEN "failed" ELSE "persist"

\* process_sample after the stages: the alignment counts are taken. When
\* process_sample is left here, its locals and the monitor's future are gone.
Derived(s) ==
    /\ pc[s] = "derived"
    /\ \E out \in FlagstatOutputs :
         LET counts == count_aligned_reads(out) IN
         /\ flagstat' = [flagstat EXCEPT ![s] = out]
         /\ pc' = [pc EXCEPT ![s] = AfterCounts(counts)]
         /\ monResult' = [monResult EXCEPT ![s] =
                            IF AfterCounts(counts) = "failed" THEN NoResult ELSE @]
         /\ fq2bamRet' = [fq2bamRet EXCEPT ![s] =
                            IF AfterCounts(counts) = "failed" THEN NoRet ELSE @]
         /\ hcRet' = [hcRet EXCEPT ![s] =
                        IF AfterCounts(counts) = "failed" THEN NoRet ELSE @]
    /\ UNCHANGED <<handed, TMP_DIR, logDir, metricsFile>>
    /\ UNCHANGED mon
    /\ UNCHANGED <<mainVars, otherVars>>

\* The sample identifier of the manifest's entry s.
SampleName(s) == "S" \o ToString(s)

\* A writer that puts a zero where a measurement is None.
CsvOptional_Zero(n) == IF n = None THEN "0" ELSE ToString(n)

\* What csv.writer writes for a cell: str() of an int, None as the empty
\* string, a float by its value (here the fraction that is the value).
CsvInt(n) == ToString(n)
CsvOptional(n) == IF n = None THEN "" ELSE ToString(n)
CsvFloat(f) == ToString(f[1]) \o "/" \o ToString(f[2])

\* metrics.get(key, "NA").
MetricGet(m, key) == IF m[key] = NoMetric THEN "NA" ELSE CsvFloat(m[key])

\* The locals of process_sample the data row is made of.
RowLocals(sample_id, rate, num_variants, gpu, disk, fq2bam_metrics, hc_metrics, quality) ==
    [ sample_id |-> sample_id, alignment_rate |-> rate,
      num_variants |-> num_variants, gpu |-> gpu, disk |-> disk,
      fq2bam_metrics |-> fq2bam_metrics, hc_metrics |-> hc_metrics,
      quality_metrics |-> quality ]

\* The measurements that never fail: the read count of the input check (and
\* 150 bases a read), the two stage times, the CPU and RAM usage.
StageSeconds == Float(3, 2)
CpuRam == <<Float(25, 1), Float(2048, 1)>>

\* The data row process_sample writes, in the order of the header.
MetricsRow(loc) ==
    << loc.sample_id, CsvInt(TotalReads), CsvInt(TotalReads * 150),
       CsvFloat(StageSeconds), CsvFloat(StageSeconds),
       MetricGet(loc.fq2bam_metrics, "bwa_time"),
       MetricGet(loc.fq2bam_metrics, "sorting_time"),
       MetricGet(loc.fq2bam_metrics, "bqsr_time"),
       CsvFloat(loc.alignment_rate), CsvOptional(loc.num_variants),
       MetricGet(loc.hc_metrics, "regions_processed"),
       MetricGet(loc.hc_metrics, "regions_per_minute"),
       CsvFloat(CpuRam[1]), CsvFloat(CpuRam[2]),
       CsvOptional(loc.gpu[1]), CsvOptional(loc.gpu[2]),
       CsvOptional(loc.disk[1]), CsvOptional(loc.disk[2]),
       MetricGet(loc.fq2bam_metrics, "time_reading"),
       MetricGet(loc.fq2bam_metrics, "min_rate"),
       MetricGet(loc.fq2bam_metrics, "max_rate"),
       MetricGet(loc.fq2bam_metrics, "avg_rate"),
       MetricGet(loc.fq2bam_metrics, "monitor_time"),
       MetricGet(loc.quality_metrics, "mean_insert_size"),
       MetricGet(loc.quality_metrics, "gc_bias"),
       MetricGet(loc.quality_metrics, "mean_quality") >>

\* The locals of sample s in a batch run. The batch run looks into neither
\* the stage outputs nor the quality reports: no rule matches, the reports
\* are not there, and bcftools and iostat give their numbers.
BatchLocals(s) ==
    LET counts == count_aligned_reads(flagstat[s]) IN
    RowLocals(SampleName(s), alignment_rate(counts[1], counts[2]), 7,
              monResult[s], <<5, 6>>,
              [k \in MetricKeys |-> NoMetric], [k \in MetricKeys |-> NoMetric],
              [k \in QualityKeys |-> NoMetric])

\* The remaining measurements are taken, logs/<sample>_metrics.csv is
\* written and process_sample returns.
Persist(s) ==
    /\ pc[s] = "persist"
    /\ metricsFile' = [metricsFile EXCEPT ![s] = MetricsRow(BatchLocals(s))]
    /\ pc' = [pc EXCEPT ![s] = "done"]
    /\ monResult' = [monResult EXCEPT ![s] = NoResult]
    /\ fq2bamRet' = [fq2bamRet EXCEPT ![s] = NoRet]
    /\ hcRet' = [hcRet EXCEPT ![s] = NoRet]
    /\ UNCHANGED <<handed, TMP_DIR, logDir, flagstat>>
    /\ UNCHANGED mon
    /\ UNCHANGED <<mainVars, otherVars>>

\* ------------------------------------------ the record of one sample
\* The metrics mappings the row is checked with: nothing found, every key
\* found, and one key found.
MetricsFound(keys, found) == [k \in keys |-> IF k \in found THEN Float(5, 1) ELSE NoMetric]
RecordInputs ==
    { RowLocals(SampleName(1), rate, num_variants, gpu, disk,
                MetricsFound(MetricKeys, f), MetricsFound(MetricKeys, h),
                MetricsFound(QualityKeys, q)) :
        rate \in {Float(90, 1), Float(1, 3)},
        num_variants \in {None, 7},
        gpu \in {<<None, None>>, <<70, 100>>},
        disk \in {<<None, None>>, <<5, 6>>},
        f \in {{}, MetricKeys, {"bwa_time"}},
        h \in {{}, MetricKeys},
        q \in {{}, QualityKeys} }

\* "writer.writerow(row)" of process_sample.
WriteRecord ==
    /\ rowInputs /= << >>
    /\ rowWritten = << >>
    /\ rowWritten' = MetricsRow(rowInputs)
    /\ UNCHANGED rowInputs
    /\ UNCHANGED <<envVars, batchVars, monitor, extractVars, scriptVars>>
    /\ UNCHANGED <<stageFinished, mergeVars, qualityVars>>

InitRecord ==
    /\ EnvIdle
    /\ BatchIdle
    /\ MonitorIdle
    /\ ExtractIdle
    /\ ScriptIdle
    /\ StageIdle
    /\ MergeIdle
    /\ QualityIdle
    /\ rowInputs \in RecordInputs
    /\ rowWritten = << >>

NextRecord == WriteRecord

SpecRecord == InitRecord /\ [][NextRecord]_vars

\* ---------------------------------------------------------- merge_metrics
\* The header process_sample writes to every per-sample file.
Header ==
    << "Sample", "Reads Processed", "Bases Processed", "fq2bam Time (sec)",
       "HaplotypeCaller Time (sec)", "BWA Time (sec)", "Sorting Time (sec)",
       "BQSR Time (sec)", "Alignment Rate (%)", "Variants Called",
       "Regions Processed", "Regions/Minute", "CPU Usage (%)", "RAM Usage (MB)",
       "Peak GPU Usage (%)", "Peak GPU Memory (MB)", "Disk Read Speed (MB/s)",
       "Disk Write Speed (MB/s)", "Time Spent Reading (sec)",
       "Min Rate (bases/GPU/min)", "Max Rate (bases/GPU/min)",
       "Avg Rate (bases/GPU/min)", "Monitor Time (sec)", "Mean Insert Size",
       "GC Bias", "Mean Quality Score" >>

\* A file of LOG_DIR: whether its name ends with "_metrics.csv", and the
\* rows csv.reader gives for it, every cell a string.
LogFile(named, rows) == [metrics_csv |-> named, rows |-> rows]

\* The state of the loop of merge_metrics.
MergeState(rows, written) == [merged_rows |-> rows, header_written |-> written]

\* A merge that never takes a header row.
MergeIteration_NoHeader(acc, file) ==
    IF ~file.metrics_csv \/ file.rows = << >> THEN acc
    ELSE MergeState(acc.merged_rows \o Tail(file.rows), TRUE)

\* One iteration of "for filename in os.listdir(LOG_DIR)": a file of another
\* name and a file without rows are passed over; the first file with rows
\* gives the header; the rows after a file's first row are appended as they
\* are.
MergeIteration(acc, file) ==
    IF ~file.metrics_csv \/ file.rows = << >> THEN acc
    ELSE MergeState(
           (IF acc.header_written THEN acc.merged_rows
            ELSE Append(acc.merged_rows, file.rows[1])) \o Tail(file.rows),
           TRUE)

\* The loop over the files in the order the listing gives them.
RECURSIVE MergeLoop(_, _)
MergeLoop(acc, listing) ==
    IF listing = << >> THEN acc
    ELSE MergeLoop(MergeIteration(acc, Head(listing)), Tail(listing))

\* The rows merge_metrics writes for a listing of files.
merge_metrics(listing) == MergeLoop(MergeState(<< >>, FALSE), listing).merged_rows

\* A data row of |hdr| cells for sample s.
DataRow(s, hdr) == [j \in 1..Len(hdr) |-> IF j = 1 THEN SampleName(s) ELSE "1"]

\* The files a merge_metrics call can find under one name: a per-sample
\* file with the full header, one of an older layout that lacks the last
\* column, one without rows, and a file that is not a per-sample file.
FileKinds == {"full", "short", "empty", "other"}
FileOfKind(s, kind) ==
    CASE kind = "full"  -> LogFile(TRUE, <<Header, DataRow(s, Header)>>)
      [] kind = "short" -> LET h == SubSeq(Header, 1, Len(Header) - 1) IN
                           LogFile(TRUE, <<h, DataRow(s, h)>>)
      [] kind = "empty" -> LogFile(TRUE, << >>)
      [] OTHER          -> LogFile(FALSE, <<<<"a line of a log">>>>)

\* os.listdir gives the next file name, in no particular order, and the
\* loop body runs for it.
MergeNextFile ==
    /\ mgPc = "listing"
    /\ \E f \in unread :
         LET acc == MergeIteration(MergeState(merged_rows, header_written), logFiles[f]) IN
         /\ merged_rows' = acc.merged_rows
         /\ header_written' = acc.header_written
         /\ unread' = unread \ {f}
    /\ UNCHANGED <<logFiles, mgPc>>
    /\ UNCHANGED <<envVars, batchVars, monitor, extractVars, scriptVars>>
    /\ UNCHANGED <<stageFinished, qualityVars, recordVars>>

\* The listing has ended: writer.writerows(merged_rows).
MergeWrite ==
    /\ mgPc = "listing"
    /\ unread = {}
    /\ mgPc' = "written"
    /\ UNCHANGED <<logFiles, unread, merged_rows, header_written>>
    /\ UNCHANGED <<envVars, batchVars, monitor, extractVars, scriptVars>>
    /\ UNCHANGED <<stageFinished, qualityVars, recordVars>>

InitMerge ==
    /\ EnvIdle
    /\ BatchIdle
    /\ MonitorIdle
    /\ ExtractIdle
    /\ ScriptIdle
    /\ StageIdle
    /\ QualityIdle
    /\ RecordIdle
    /\ \E S \in SUBSET (1..NFiles) : \E kind \in [S -> FileKinds] :
         /\ logFiles = [f \in S |-> FileOfKind(f, kind[f])]
         /\ unread = S
    /\ mgPc = "listing"
    /\ merged_rows = << >>
    /\ header_written = FALSE

NextMerge == MergeNextFile \/ MergeWrite

SpecMerge == InitMerge /\ [][NextMerge]_vars

\* --------------------------------------------------------- the main thread
\* process_samples reads the manifest.
ReadManifest ==
    /\ mainPc = "start"
    /\ \E readable \in BOOLEAN :
         mainPc' = IF readable THEN "submit" ELSE "crashed"
    /\ UNCHANGED <<nsub, yielded, logged, merged, realclock>>
    /\ UNCHANGED <<sampleVars, monVars, otherVars>>

\* The dict comprehension submits one task per manifest entry, in order.
Submit ==
    /\ mainPc = "submit"
    /\ nsub < NSamples
    /\ nsub' = nsub + 1
    /\ pc' = [pc EXCEPT ![manifest[nsub + 1]] = "queued"]
    /\ mainPc' = IF nsub + 1 = NSamples THEN "collect" ELSE "submit"
    /\ UNCHANGED <<yielded, logged, merged, realclock>>
    /\ UNCHANGED <<handed, TMP_DIR, logDir, fq2bamRet, hcRet, flagstat, metricsFile>>
    /\ UNCHANGED <<monVars, otherVars>>

\* A result loop that catches nothing.
ResultLoop_AllEscape(p) ==
    IF p \in {"raised", "sysexit"} THEN "escape" ELSE "pass"

\* What future.result() does to the result loop: an Exception is caught and
\* logged ("log"), SystemExit is not an Exception and escapes ("escape"),
\* a returned task passes ("pass").
ResultLoop(p) ==
    CASE p = "raised" -> "log"
      [] p = "sysexit" -> "escape"
      [] OTHER -> "pass"

\* One iteration of "for future in as_completed(futures)".
Collect(s) ==
    /\ mainPc = "collect"
    /\ s \notin yielded
    /\ Terminal(pc[s])
    /\ LET r == ResultLoop(pc[s]) IN
       /\ mainPc' = IF r = "escape" THEN "drain" ELSE "collect"
       /\ yielded' = yielded \cup {s}
       /\ logged' = IF r = "log" THEN logged \cup {s} ELSE logged
    /\ UNCHANGED <<nsub, merged, realclock>>
    /\ UNCHANGED <<sampleVars, monVars, otherVars>>

\* A main thread that goes on to the merge after the first handled future.
PoolExit_Early ==
    /\ mainPc = "collect"
    /\ yielded /= {}
    /\ mainPc' = "merge"
    /\ UNCHANGED <<nsub, yielded, logged, merged, realclock>>
    /\ UNCHANGED <<sampleVars, monVars, otherVars>>

\* Every future has been handled: the loop and the with block end, and
\* process_samples returns.
PoolExit ==
    /\ mainPc = "collect"
    /\ yielded = Samples
    /\ mainPc' = "merge"
    /\ UNCHANGED <<nsub, yielded, logged, merged, realclock>>
    /\ UNCHANGED <<sampleVars, monVars, otherVars>>

\* A pool that drops its queued tasks when an error leaves the with block.
Drain_CancelQueued ==
    /\ mainPc = "drain"
    /\ \A s \in Samples : Terminal(pc[s]) \/ pc[s] = "queued"
    /\ mainPc' = "exited"
    /\ UNCHANGED <<nsub, yielded, logged, merged, realclock>>
    /\ UNCHANGED <<sampleVars, monVars, otherVars>>

\* An error escaping the loop leaves the with block: shutdown(wait=True)
\* waits for every submitted task, then the error leaves process_samples
\* and main.
Drain ==
    /\ mainPc = "drain"
    /\ \A s \in Samples : Terminal(pc[s])
    /\ mainPc' = "exited"
    /\ UNCHANGED <<nsub, yielded, logged, merged, realclock>>
    /\ UNCHANGED <<sampleVars, monVars, otherVars>>

\* The sequences that list every element of S once.
Orders(S) ==
    { o \in [1..Cardinality(S) -> S] : \A i, j \in 1..Cardinality(S) :
                                          i /= j => o[i] /= o[j] }

\* logs/<sample>_metrics.csv at the merge: the file written in this run, or
\* one an earlier run has left there.
SampleLogFile(s) ==
    IF metricsFile[s] /= NoFile THEN LogFile(TRUE, <<Header, metricsFile[s]>>)
    ELSE FileOfKind(s, "full")

\* merge_metrics on the per-sample files LOG_DIR holds, in the order
\* os.listdir gives them: those written in this run, and any that an
\* earlier run has left for a sample that wrote none.
Merge ==
    /\ mainPc = "merge"
    /\ \E left \in SUBSET { s \in Samples : metricsFile[s] = NoFile } :
         \E o \in Orders({ s \in Samples : metricsFile[s] /= NoFile } \cup left) :
           merged' = merge_metrics([i \in DOMAIN o |-> SampleLogFile(o[i])])
    /\ mainPc' = "realclock"
    /\ UNCHANGED <<nsub, yielded, logged, realclock>>
    /\ UNCHANGED <<sampleVars, monVars, otherVars>>

\* write_realclock_metric.
RealClock ==
    /\ mainPc = "realclock"
    /\ realclock' = TRUE
    /\ mainPc' = "done"
    /\ UNCHANGED <<nsub, yielded, logged, merged>>
    /\ UNCHANGED <<sampleVars, monVars, otherVars>>

\* A program that always reports success.
ExitCode_AlwaysZero(p) == 0

\* The exit status of "python gpu_script.py" by the way main() ends: 0 when
\* it returns, 1 when an exception leaves it (open() of the manifest) and 1
\* when the SystemExit of exit(1) leaves it.
ExitCode(p) ==
    CASE p = "done" -> 0
      [] p = "crashed" -> 1
      [] p = "exited" -> 1

\* ------------------------------------------------------ the batch program
Next ==
    \/ ReadManifest
    \/ Submit
    \/ PoolExit
    \/ Drain
    \/ Merge
    \/ RealClock
    \/ \E s \in Samples :
         \/ Collect(s)
         \/ StartTask(s)
         \/ InputCheck(s)
         \/ SetTmpDir(s)
         \/ StageLogPath(s)
         \/ Fq2bamRun(s)
         \/ HcRun(s)
         \/ JoinMonitor(s)
         \/ Derived(s)
         \/ Persist(s)
         \/ MonitorFinish(s)

Spec == Init /\ [][Next]_vars
\* The batch program when nothing hangs: every thread that can take a step
\* is scheduled, every docker invocation returns or fails, every probe and
\* every sleep(1) of a monitor returns.
SpecLive == Spec /\ WF_vars(Next)


\* ------------------------------------------------ parse_parabricks_output
\* The stage output is a sequence of fragments; a fragment is a piece of
\* text one of the extractor's patterns matches, with the number the
\* pattern's group captures. "rate_stats" is the heading "Rate stats ...:".
Fragment(kind, value) == [kind |-> kind, value |-> value]
ExtractFragments ==
    { Fragment("regions_processed", 1000), Fragment("regions_processed", 2500),
      Fragment("regions_per_minute", 60), Fragment("bwa_time", 5),
      Fragment("rate_stats", 0), Fragment("min_rate", 1),
      Fragment("max_rate", 3), Fragment("avg_rate", 2) }

\* The keys of the for loop's (key, pattern) list, in its order.
Rules ==
    << "bwa_time", "sorting_time", "bqsr_time", "time_reading", "monitor_time",
       "regions_processed", "regions_per_minute" >>

\* re.search from position `from` on: the index of the first fragment the
\* pattern of `kind` matches, 0 when there is none.
re_search(kind, text, from) ==
    LET I == { i \in from..Len(text) : text[i].kind = kind } IN
    IF I = {} THEN 0 ELSE CHOOSE i \in I : \A j \in I : i <= j

\* re.findall: the captured numbers of every match, in text order.
RECURSIVE re_findall(_, _)
re_findall(kind, text) ==
    IF text = << >> THEN << >>
    ELSE IF Head(text).kind = kind
         THEN <<Head(text).value>> \o re_findall(kind, Tail(text))
         ELSE re_findall(kind, Tail(text))

\* float() of a captured run of digits.
float(v) == Float(v, 1)

\* The rate block pattern, with re.DOTALL: "Rate stats", anything, then
\* ":\s*min rate:", so a "min rate:" line right after a line that ends with
\* a colon (of the fragments only the heading does), then "max rate:" and
\* "avg rate:" in this order, anything in between. It gives the three
\* indices of the first match, or << >> when the text has no such block.
rate_block(text) ==
    LET A == { a \in 2..Len(text) : /\ text[a - 1].kind = "rate_stats"
                                    /\ text[a].kind = "min_rate" }
        mx(a) == re_search("max_rate", text, a + 1)
        av(a) == IF mx(a) = 0 THEN 0 ELSE re_search("avg_rate", text, mx(a) + 1)
        M == { a \in A : av(a) /= 0 }
    IN IF M = {} THEN << >>
       ELSE LET a == CHOOSE a \in M : \A b \in M : a <= b
            IN <<a, mx(a), av(a)>>

\* "if key not in metrics: last = re.findall(...); if last: metrics[key] =
\* float(last[-1])".
Fallback(m, key, text) ==
    LET last == re_findall(key, text) IN
    IF m[key] = NoMetric /\ last /= << >>
    THEN [m EXCEPT ![key] = float(last[Len(last)])]
    ELSE m

\* One iteration of the for loop over the (key, pattern) list.
ExtractRule ==
    /\ exPc = "rules"
    /\ LET key == Rules[ruleIdx]
           m   == re_search(key, output_str, 1)
       IN metrics' = IF m /= 0 THEN [metrics EXCEPT ![key] = float(output_str[m].value)]
                     ELSE metrics
    /\ IF ruleIdx < Len(Rules)
       THEN ruleIdx' = ruleIdx + 1 /\ UNCHANGED exPc
       ELSE exPc' = "rate_block" /\ UNCHANGED ruleIdx
    /\ UNCHANGED output_str
    /\ UNCHANGED <<envVars, batchVars, monitor, scriptVars, moreVars>>

\* An extractor that takes each rate of the block it finds, whether or not
\* the whole block is there.
RateBlockUpdate_Partial(m, text) ==
    LET h == re_search("rate_stats", text, 1)
        rate(kind) == IF h = 0 THEN 0 ELSE re_search(kind, text, h + 1)
        set(mm, key) == IF rate(key) = 0 THEN mm
                        ELSE [mm EXCEPT ![key] = float(text[rate(key)].value)]
    IN set(set(set(m, "min_rate"), "max_rate"), "avg_rate")

\* "if rate_block: metrics[min_rate], [max_rate], [avg_rate] = the groups".
RateBlockUpdate(m, text) ==
    LET b == rate_block(text) IN
    IF b = << >> THEN m
    ELSE [m EXCEPT !["min_rate"] = float(text[b[1]].value),
                   !["max_rate"] = float(text[b[2]].value),
                   !["avg_rate"] = float(text[b[3]].value)]

ExtractRateBlock ==
    /\ exPc = "rate_block"
    /\ metrics' = RateBlockUpdate(metrics, output_str)
    /\ exPc' = "fallback_processed"
    /\ UNCHANGED <<output_str, ruleIdx>>
    /\ UNCHANGED <<envVars, batchVars, monitor, scriptVars, moreVars>>

ExtractFallbackProcessed ==
    /\ exPc = "fallback_processed"
    /\ metrics' = Fallback(metrics, "regions_processed", output_str)
    /\ exPc' = "fallback_rate"
    /\ UNCHANGED <<output_str, ruleIdx>>
    /\ UNCHANGED <<envVars, batchVars, monitor, scriptVars, moreVars>>

\* The second fallback, and "return metrics".
ExtractFallbackRate ==
    /\ exPc = "fallback_rate"
    /\ metrics' = Fallback(metrics, "regions_per_minute", output_str)
    /\ exPc' = "returned"
    /\ UNCHANGED <<output_str, ruleIdx>>
    /\ UNCHANGED <<envVars, batchVars, monitor, scriptVars, moreVars>>

\* ------------------------------------------------- parse_quality_reports
\* What parse_quality_reports can find of one report file: the file is not
\* there (open raises), its labelled line cannot be read (float() or the
\* index raises), it has no labelled line, or it has one that reads well.
ReportStates == {"missing", "unreadable", "unlabelled", "ok"}

\* A parser that gives up what it has read when a report cannot be read.
QualityFailure_Empty(m) == [k \in DOMAIN m |-> NoMetric]

\* "except Exception: logging.error(...)", and then "return metrics".
QualityFailure(m) == m

\* The part of the try block for one report file: `key` is set when the
\* file has its labelled line (mean_quality also when it has no numeric
\* row: it is 0 then); an error ends the try block.
QualityFile(m, key, report) ==
    CASE report \in {"missing", "unreadable"} -> QualityFailure(m)
      [] report = "unlabelled" ->
           IF key = "mean_quality" THEN [m EXCEPT ![key] = Float(0, 1)] ELSE m
      [] OTHER -> [m EXCEPT ![key] = Float(30, 1)]

\* The part of the try block for report file i of the three.
QualityStep(i, key, next) ==
    /\ qPc = key
    /\ quality_metrics' = QualityFile(quality_metrics, key, reports[i])
    /\ qPc' = IF reports[i] \in {"missing", "unreadable"} THEN "returned" ELSE next
    /\ UNCHANGED reports
    /\ UNCHANGED <<envVars, batchVars, monitor, extractVars, scriptVars>>
    /\ UNCHANGED <<stageFinished, mergeVars, recordVars>>

QualityInsertSize == QualityStep(1, "mean_insert_size", "gc_bias")
QualityGcBias == QualityStep(2, "gc_bias", "mean_quality")
QualityMeanQuality == QualityStep(3, "mean_quality", "returned")

\* ----------------------------------- the metrics mappings of one sample
\* A rate block as a stage output can hold it: none, a whole one, one whose
\* maximum is missing, one whose rates are out of order, and one with
\* another line between the heading and the minimum.
RateBlocks ==
    { << >>,
      << Fragment("rate_stats", 0), Fragment("bwa_time", 5), Fragment("min_rate", 1),
         Fragment("max_rate", 3), Fragment("avg_rate", 2) >>,
      << Fragment("rate_stats", 0), Fragment("min_rate", 1),
         Fragment("max_rate", 3), Fragment("avg_rate", 2) >>,
      << Fragment("rate_stats", 0), Fragment("min_rate", 1),
         Fragment("avg_rate", 2) >>,
      << Fragment("rate_stats", 0), Fragment("min_rate", 1),
         Fragment("avg_rate", 2), Fragment("max_rate", 3) >> }

\* The stage outputs the extractor is given: up to MaxFragments fragments,
\* and a rate block after them.
StageOutputs ==
    { a \o b : a \in UNION { [1..n -> ExtractFragments] : n \in 0..MaxFragments },
               b \in RateBlocks }

\* Either parse_parabricks_output is called on a stage output, or
\* parse_quality_reports on the three report files of a sample.
InitExtract ==
    /\ EnvIdle
    /\ BatchIdle
    /\ MonitorIdle
    /\ ScriptIdle
    /\ StageIdle
    /\ MergeIdle
    /\ RecordIdle
    /\ metrics = [k \in MetricKeys |-> NoMetric]
    /\ ruleIdx = 1
    /\ quality_metrics = [k \in QualityKeys |-> NoMetric]
    /\ \/ /\ output_str \in StageOutputs
          /\ exPc = "rules"
          /\ reports = << >>
          /\ qPc = "idle"
       \/ /\ output_str = << >>
          /\ exPc = "idle"
          /\ reports \in [1..3 -> ReportStates]
          /\ qPc = "mean_insert_size"

NextExtract ==
    \/ ExtractRule
    \/ ExtractRateBlock
    \/ ExtractFallbackProcessed
    \/ ExtractFallbackRate
    \/ QualityInsertSize
    \/ QualityGcBias
    \/ QualityMeanQuality

SpecExtract == InitExtract /\ [][NextExtract]_vars

\* --------------------------------------------------- pipeline_script.main
\* Python truthiness of a tuple: every non-empty tuple is true.
TupleTruthy(t) == Len(t) > 0

\* "if run_parabricks_fq2bam(...):" tests what the runner returned.
AlignmentBranch(ret) == IF TupleTruthy(ret) THEN "hc" ELSE "returned"

\* "if run_parabricks_haplotypecaller(...):" does the same.
VariantBranch(ret) == IF TupleTruthy(ret) THEN "cleanup_raw" ELSE "returned"

\* A download that writes under the final name.
TempPath_Final(bam_path) == bam_path

\* temp_path = f"{bam_path}.incomplete".
TempPath(bam_path) == bam_path \o ".incomplete"

\* download_bam up to the loop: an existing file is returned as it is;
\* otherwise requests.get and raise_for_status either raise, which gives
\* None, or open(temp_path, 'wb') makes the temporary file empty.
ScriptDownload ==
    /\ psPc = "start"
    /\ IF "raw_bam" \in files
       THEN /\ psPc' = "bam2fq"
            /\ UNCHANGED <<files, psLog, chunks>>
       ELSE \E got \in {"ok", "no_response"} :
              IF got = "ok"
              THEN /\ files' = files \cup {TempPath("raw_bam")}
                   /\ chunks' = [chunks EXCEPT ![TempPath("raw_bam")] = 0]
                   /\ psPc' = "download_write"
                   /\ UNCHANGED psLog
              ELSE /\ psPc' = "returned"
                   /\ psLog' = Append(psLog, "download_failed")
                   /\ UNCHANGED <<files, chunks>>
    /\ UNCHANGED <<single_end, psFq2bam, psHc>>
    /\ UNCHANGED <<envVars, batchVars, monitor, extractVars, moreVars>>

\* One iteration of "for chunk in response.iter_content(...)": the chunk is
\* written, or the connection breaks off, the error is caught and None is
\* returned.
ScriptDownloadWrite ==
    /\ psPc = "download_write"
    /\ chunks[TempPath("raw_bam")] < NChunks
    /\ \E got \in {"chunk", "broken_off"} :
         IF got = "chunk"
         THEN /\ chunks' = [chunks EXCEPT ![TempPath("raw_bam")] = @ + 1]
              /\ UNCHANGED <<psPc, psLog>>
         ELSE /\ psPc' = "returned"
              /\ psLog' = Append(psLog, "download_failed")
              /\ UNCHANGED chunks
    /\ UNCHANGED <<single_end, files, psFq2bam, psHc>>
    /\ UNCHANGED <<envVars, batchVars, monitor, extractVars, moreVars>>

\* The loop has ended: os.rename(temp_path, bam_path), and the path is
\* returned.
ScriptDownloadRename ==
    /\ psPc = "download_write"
    /\ chunks[TempPath("raw_bam")] = NChunks
    /\ files' = (files \ {TempPath("raw_bam")}) \cup {"raw_bam"}
    /\ chunks' = [chunks EXCEPT ![TempPath("raw_bam")] = 0,
                                !["raw_bam"] = chunks[TempPath("raw_bam")]]
    /\ psPc' = "bam2fq"
    /\ UNCHANGED <<single_end, psFq2bam, psHc, psLog>>
    /\ UNCHANGED <<envVars, batchVars, monitor, extractVars, moreVars>>

\* run_bam2fq returns the two paths, or (None, None) on CalledProcessError.
ScriptBam2fq ==
    /\ psPc = "bam2fq"
    /\ \E exit \in StageExits :
         /\ files' = IF exit = "zero" THEN files \cup {"fastq"} ELSE files
         /\ psPc' = CASE exit = "zero" -> "fq2bam"
                      [] exit = "nonzero" -> "returned"
                      [] OTHER -> "raised"
         /\ psLog' = IF exit = "nonzero" THEN Append(psLog, "fastq_failed") ELSE psLog
    /\ UNCHANGED <<single_end, psFq2bam, psHc, chunks>>
    /\ UNCHANGED <<envVars, batchVars, monitor, extractVars, moreVars>>

\* Step 5, first half: the alignment stage and the test of its result.
ScriptFq2bam ==
    /\ psPc = "fq2bam"
    /\ \E exit \in StageExits, written \in BOOLEAN :
         /\ exit = "zero" => written
         /\ exit = "oserror" => ~written
         /\ files' = IF written THEN files \cup {"output_bam"} ELSE files
         /\ IF StageRaises(0, 0, exit)
            THEN /\ psPc' = "raised"
                 /\ UNCHANGED <<psFq2bam, psLog>>
            ELSE /\ psFq2bam' = StageReturn(exit)
                 /\ psPc' = AlignmentBranch(StageReturn(exit))
                 /\ psLog' = IF AlignmentBranch(StageReturn(exit)) = "returned"
                             THEN Append(psLog, "alignment_failed") ELSE psLog
    /\ UNCHANGED <<single_end, psHc, chunks>>
    /\ UNCHANGED <<envVars, batchVars, monitor, extractVars, moreVars>>

\* Step 5, second half: the variant-calling stage and the test of its result.
ScriptHc ==
    /\ psPc = "hc"
    /\ \E exit \in StageExits :
         /\ files' = IF exit = "zero" THEN files \cup {"vcf"} ELSE files
         /\ IF StageRaises(0, 0, exit)
            THEN /\ psPc' = "raised"
                 /\ UNCHANGED <<psHc, psLog>>
            ELSE /\ psHc' = StageReturn(exit)
                 /\ psPc' = VariantBranch(StageReturn(exit))
                 /\ psLog' = Append(psLog, IF VariantBranch(StageReturn(exit)) = "returned"
                                           THEN "vcf_failed" ELSE "vcf_completed")
    /\ UNCHANGED <<single_end, psFq2bam, chunks>>
    /\ UNCHANGED <<envVars, batchVars, monitor, extractVars, moreVars>>

\* Step 6: the raw BAM is removed when it exists.
ScriptCleanupRaw ==
    /\ psPc = "cleanup_raw"
    /\ files' = files \ {"raw_bam"}
    /\ chunks' = [chunks EXCEPT !["raw_bam"] = 0]
    /\ psLog' = IF "raw_bam" \in files THEN Append(psLog, "deleted_raw_bam") ELSE psLog
    /\ psPc' = "cleanup_out"
    /\ UNCHANGED <<single_end, psFq2bam, psHc>>
    /\ UNCHANGED <<envVars, batchVars, monitor, extractVars, moreVars>>

\* Step 6: the BAM the pipeline made is removed when it exists.
ScriptCleanupOut ==
    /\ psPc = "cleanup_out"
    /\ files' = files \ {"output_bam"}
    /\ psLog' = IF "output_bam" \in files THEN Append(psLog, "deleted_output_bam")
                ELSE psLog
    /\ psPc' = "returned"
    /\ UNCHANGED <<single_end, psFq2bam, psHc, chunks>>
    /\ UNCHANGED <<envVars, batchVars, monitor, extractVars, moreVars>>

\* A run starts in directories a former run may have left files in.
InitPipeline ==
    /\ EnvIdle
    /\ BatchIdle
    /\ MonitorIdle
    /\ ExtractIdle
    /\ MoreIdle
    /\ psPc = "start"
    /\ single_end \in BOOLEAN
    /\ files \in SUBSET {"raw_bam", "raw_bam.incomplete", "output_bam"}
    /\ \E left \in 0..NChunks :
         chunks = [n \in {"raw_bam", "raw_bam.incomplete"} |->
                     CASE n \notin files -> 0
                       [] n = "raw_bam" -> NChunks
                       [] OTHER -> left]
    /\ psFq2bam = NoRet
    /\ psHc = NoRet
    /\ psLog = << >>

NextPipeline ==
    \/ ScriptDownload
    \/ ScriptDownloadWrite
    \/ ScriptDownloadRename
    \/ ScriptBam2fq
    \/ ScriptFq2bam
    \/ ScriptHc
    \/ ScriptCleanupRaw
    \/ ScriptCleanupOut

SpecPipeline == InitPipeline /\ [][NextPipeline]_vars

\* ================================================================ claims
\* ---------------------------------------------------------------- Spec

\* C1: process_samples hands every identifier of the manifest to
\* process_sample exactly once: at no time has a sample been handed over
\* twice, and once process_samples is left, by returning or by an error
\* that escapes it, no sample has been handed over zero times, whatever the
\* outcome of the other samples.
C1_HandedExactlyOnce ==
    /\ \A s \in Samples : handed[s] <= 1
    /\ mainPc \in {"merge", "realclock", "done", "exited"}
         => \A s \in Samples : handed[s] = 1

\* process_samples has returned, one sample raised, another one skipped or
\* failed, and every sample was handed over once.
C1_Witness ==
    /\ mainPc = "merge"
    /\ \E s, t \in Samples : pc[s] = "raised" /\ pc[t] \in {"skipped", "failed"}
    /\ \A s \in Samples : handed[s] = 1

\* C2, as stated: no failure raised inside process_sample ever propagates
\* out of process_samples, so the main thread never leaves the result loop
\* by an error.
C2_NoFailureEscapes == mainPc \notin {"drain", "exited"}

\* C2, amended: an Exception raised inside process_sample is caught and
\* logged at the result loop, and does not keep the batch from merge_metrics
\* and the timing report; the only failure that leaves the result loop is the
\* SystemExit of check_conda_env, and it leaves process_samples only after
\* every sibling task has run to its end, with no merged report and no
\* timing report written.
C2_OnlySystemExitEscapes ==
    /\ \A s \in yielded : pc[s] = "raised" => s \in logged
    /\ mainPc \in {"drain", "exited"} => \E s \in yielded : pc[s] = "sysexit"
    /\ mainPc \in {"merge", "realclock", "done"} => \A s \in Samples : pc[s] /= "sysexit"
    /\ mainPc = "exited" =>
         /\ \A s \in Samples : Terminal(pc[s])
         /\ merged = << >>
         /\ ~realclock

\* A sample raised an Exception, it was logged, a sibling went through to its
\* metrics record, and the batch has written the timing report.
C2_Witness ==
    /\ mainPc = "done"
    /\ realclock
    /\ \E s, t \in Samples : s \in logged /\ pc[s] = "raised" /\ pc[t] = "done"

\* C3: whenever a stage runner works on behalf of sample s, the directory of
\* the log path it has computed is s's own tmp/s.
C3_OwnTmpDir ==
    \A s \in Samples : pc[s] \in {"fq2bam_cmd", "hc_cmd"} => logDir[s] = s

\* C4: in process_sample the variant-calling stage is started only after the
\* alignment stage has returned success: a sample that is in
\* run_parabricks_haplotypecaller, or has a result of it, holds a successful
\* result of run_parabricks_fq2bam.
C4_Stage2OnlyAfterStage1Success ==
    \A s \in Samples :
        (pc[s] \in {"hc_log", "hc_cmd"} \/ hcRet[s] /= NoRet)
            => fq2bamRet[s] /= NoRet /\ fq2bamRet[s][2]

\* One sample is in stage 2 after a successful stage 1 while stage 1 of
\* another one has failed.
C4_Witness ==
    \E s, t \in Samples :
        /\ pc[s] = "hc_cmd" /\ fq2bamRet[s] = <<"full_output", TRUE>>
        /\ pc[t] \in {"join_failed", "failed"} /\ hcRet[t] = NoRet

\* C6: merge_metrics starts only after every sample task has reached a
\* terminal state: while the main thread is at or past the merge, no sample
\* is queued or being orchestrated.
C6_MergeAfterAllTerminal ==
    mainPc \in {"merge", "realclock", "done"} => \A s \in Samples : Terminal(pc[s])

\* The merge is about to read the records, and there is one to read.
C6_Witness ==
    /\ mainPc = "merge"
    /\ \E s \in Samples : metricsFile[s] /= NoFile

\* C7: at every instant the number of samples whose orchestration is in
\* progress is at most --concurrent.
C7_AtMostConcurrentRunning == Cardinality(Running) <= concurrent

\* Every worker is busy and a sample waits in the queue.
C7_Witness ==
    /\ Cardinality(Running) = concurrent
    /\ \E s \in Samples : pc[s] = "queued"

\* C9: a sample whose stages succeeded and whose flagstat total is 0 ends
\* with a record whose alignment rate is exactly 0, and one with total 200
\* and 180 properly paired ends with a record whose rate is 90.
C9_ZeroTotalGivesZeroRate ==
    \A s \in Samples :
        /\ (Terminal(pc[s]) /\ flagstat[s] = Flagstat(0, 0, 0))
             => pc[s] = "done" /\ metricsFile[s][9] = CsvFloat(Float(0, 1))
        /\ (Terminal(pc[s]) /\ flagstat[s] = Flagstat(0, 200, 180))
             => pc[s] = "done" /\ metricsFile[s][9] = CsvFloat(Float(90, 1))

\* --------------------------------------------------------- SpecPipeline

\* C5: in pipeline_script.main the variant-calling stage is not run when the
\* alignment stage has reported failure: main is at the variant-calling
\* stage, or past it, only with a successful alignment result.
C5_NoVariantCallingAfterFailedAlignment ==
    (psPc \in {"hc", "cleanup_raw", "cleanup_out"} \/ psHc /= NoRet)
        => psFq2bam = <<"full_output", TRUE>>

\* ---------------------------------------------------------- SpecExtract

\* C8: for the two progress counters, the extractor returns the value of
\* the last occurrence in the text.
C8_LastOccurrenceWins ==
    exPc = "returned" =>
        \A k \in {"regions_processed", "regions_per_minute"} :
            LET all == re_findall(k, output_str) IN
            all /= << >> => metrics[k] = float(all[Len(all)])

\* ---------------------------------------------------------- SpecMonitor

\* C10: a call of the monitor that ends by a failed probe, at whatever tick,
\* returns None for both peaks; the peaks of the earlier ticks are not
\* returned. (A call that ends before its window has passed ended by a
\* failed probe.)
C10_FailedProbeGivesNoPeaks ==
    (monitor.result /= NoResult /\ monitor.elapsed < duration)
        => monitor.result = <<None, None>>

\* A probe failed after at least one tick that had raised both peaks.
C10_Witness ==
    /\ monitor.result = <<None, None>>
    /\ monitor.elapsed >= 1
    /\ monitor.peak_util > 0
    /\ monitor.peak_mem > 0

\* C20: a call of the monitor that returns peaks has run through its whole
\* window and returns the maxima of the readings taken in it, whether the
\* stage has returned by then or not; and while the window is open and no
\* probe has failed the monitor goes on sampling, also after the stage has
\* returned.
C20_WindowIndependentOfStage ==
    /\ (monitor.result /= NoResult /\ monitor.result /= <<None, None>>) =>
          /\ monitor.elapsed = duration
          /\ monitor.result = <<monitor.peak_util, monitor.peak_mem>>
    /\ (monitor.result = NoResult /\ monitor.elapsed < duration) =>
          /\ ENABLED MonitorTick
          /\ ~ENABLED MonitorReturn

\* The stage has returned and the monitor, after at least one reading, is
\* still inside its window.
C20_Witness ==
    /\ stageFinished
    /\ monitor.result = NoResult
    /\ monitor.elapsed >= 1
    /\ monitor.elapsed < duration
    /\ monitor.peak_util > 0

\* ------------------------------------------------------------ SpecMerge

\* C11: the merged report holds every data row of every per-sample file
\* and every row has as many cells as the header: the row of a file that
\* lacks a column of the header has the absent-value token "NA" in that
\* column, and the cells of the columns it has under these columns.
C11_ShortRecordIsPadded ==
    mgPc = "written" =>
        \A f \in DOMAIN logFiles :
            (logFiles[f].metrics_csv /\ Len(logFiles[f].rows) >= 2) =>
                LET hdr == merged_rows[1]
                    own == logFiles[f].rows[1]
                    row == logFiles[f].rows[2]
                    padded == [j \in 1..Len(hdr) |->
                                 IF \E k \in 1..Len(own) : own[k] = hdr[j]
                                 THEN row[CHOOSE k \in 1..Len(own) : own[k] = hdr[j]]
                                 ELSE "NA"]
                IN \E i \in 2..Len(merged_rows) : merged_rows[i] = padded
\* ------------------------------------------------------- Spec, continued

\* C12: the merged report is the header row followed by exactly one data
\* row for each sample that reached the persist step in this batch, and it
\* has no data row for any other sample.
C12_OneRowPerPersistedSample ==
    mainPc \in {"realclock", "done"} =>
        /\ Len(merged) >= 1
        /\ merged[1] = Header
        /\ \A s \in Samples :
             Cardinality({ i \in 2..Len(merged) : merged[i][1] = SampleName(s) })
                 = IF pc[s] = "done" THEN 1 ELSE 0
\* ----------------------------------------------------------- SpecRecord

\* C13: every absent field of the record (a key no rule found, a failed GPU
\* probe, a failed disk probe, a variant count not found) is written as the
\* same token "NA".
C13_AbsentFieldsAreNA ==
    rowWritten /= << >> =>
        /\ rowInputs.num_variants = None => rowWritten[10] = "NA"
        /\ rowInputs.gpu = <<None, None>> => rowWritten[15] = "NA" /\ rowWritten[16] = "NA"
        /\ rowInputs.disk = <<None, None>> => rowWritten[17] = "NA" /\ rowWritten[18] = "NA"
        /\ rowInputs.fq2bam_metrics["bwa_time"] = NoMetric => rowWritten[6] = "NA"
        /\ rowInputs.hc_metrics["regions_processed"] = NoMetric => rowWritten[11] = "NA"
        /\ rowInputs.quality_metrics["gc_bias"] = NoMetric => rowWritten[25] = "NA"
\* ------------------------------------------------ SpecExtract, continued

\* C14: in the mapping parse_parabricks_output builds and in the one
\* parse_quality_reports builds, a key that holds a value holds a value
\* after every later step (rule, rate block, fallback, failed read of a
\* report): no step removes a key or makes it absent.
C14_MonotonicPresence ==
    [][ /\ \A k \in MetricKeys : metrics[k] /= NoMetric => metrics'[k] /= NoMetric
        /\ \A k \in QualityKeys :
             quality_metrics[k] /= NoMetric => quality_metrics'[k] /= NoMetric ]_vars

\* parse_quality_reports has returned after the second report could not be
\* read, and the key of the first report is still there.
C14_Witness ==
    /\ qPc = "returned"
    /\ reports[1] = "ok"
    /\ reports[2] \in {"missing", "unreadable"}
    /\ quality_metrics["mean_insert_size"] /= NoMetric

\* C15: for a text with a rate block (the heading, right after it the
\* minimum, later the maximum, later the average), the extractor returns
\* the three rates, and the Regions/Minute value when the text has such a
\* line; for a text without a rate block min_rate, max_rate and avg_rate
\* are all three absent; in both cases every key of the for loop is present
\* exactly when the text has a line of its own rule.
C15_RateBlockAllOrNothing ==
    exPc = "returned" =>
        LET n == Len(output_str)
            at(i, kind) == output_str[i].kind = kind
            block == \E a, b, c \in 2..n :
                        /\ a < b /\ b < c
                        /\ at(a - 1, "rate_stats") /\ at(a, "min_rate")
                        /\ at(b, "max_rate") /\ at(c, "avg_rate")
            rates == {"min_rate", "max_rate", "avg_rate"}
        IN /\ block => \A k \in rates : metrics[k] /= NoMetric
           /\ ~block => \A k \in rates : metrics[k] = NoMetric
           /\ \A i \in 1..Len(Rules) :
                metrics[Rules[i]] /= NoMetric <=> \E j \in 1..n : at(j, Rules[i])

\* The text has a whole rate block and a Regions/Minute line, and all four
\* values are returned.
C15_Witness ==
    /\ exPc = "returned"
    /\ metrics["min_rate"] = float(1)
    /\ metrics["max_rate"] = float(3)
    /\ metrics["avg_rate"] = float(2)
    /\ metrics["regions_per_minute"] = float(60)
\* ------------------------------------------------------- Spec, continued

C17_FailureEndsSample ==
    [][ \A s \in Samples :
          /\ (pc[s] = "fq2bam_cmd" /\ pc'[s] = "hc_log") => fq2bamRet'[s][2]
          /\ (pc[s] = "hc_cmd" /\ pc'[s] = "join") => hcRet'[s][2]
          /\ (pc[s] = "derived" /\ pc'[s] = "persist") =>
                 None \notin { count_aligned_reads(flagstat'[s])[i] : i \in 1..2 }
          /\ (pc[s] = "derived" /\ pc'[s] /= "derived") =>
                 (pc'[s] = "failed" <=>
                    count_aligned_reads(flagstat'[s]) = <<None, None>>)
          /\ pc[s] = "join_failed" => pc'[s] \in {"join_failed", "failed"}
          /\ pc[s] = "failed" => pc'[s] = "failed"
          /\ pc'[s] \in {"join_failed", "failed"} => metricsFile'[s] = NoFile ]_vars

\* One sample has failed on its alignment counts while another one, whose
\* stage reported failure, waits for its monitor before it ends.
C17_Witness ==
    \E s, t \in Samples :
        /\ pc[s] = "failed"
        /\ flagstat[s] /= NoFlagstat
        /\ count_aligned_reads(flagstat[s]) = <<None, None>>
        /\ pc[t] = "join_failed"

\* C18 as stated: a sample with a missing input file never gets a monitor,
\* a stage or a record, and ends skipped.
C18_MissingInputSkips ==
    \A s \in Samples :
        (~fastq[s][1] \/ ~fastq[s][2]) =>
            /\ pc[s] \in {"unsubmitted", "queued", "started", "skipped"}
            /\ mon[s] = "none"
            /\ metricsFile[s] = NoFile

\* C18: a sample with a missing input file never gets a monitor, a stage or
\* a record and never writes the shared TMP_DIR; in bioinfo_env it ends
\* skipped, outside of it the exit(1) of check_conda_env ends it before the
\* input files are looked at.
C18_MissingInputSkipsInEnv ==
    \A s \in Samples :
        (~fastq[s][1] \/ ~fastq[s][2]) =>
            /\ pc[s] \in {"unsubmitted", "queued", "started",
                          IF condaEnvOk THEN "skipped" ELSE "sysexit"}
            /\ mon[s] = "none"
            /\ metricsFile[s] = NoFile
            /\ TMP_DIR /= s

\* A sample with a missing input file was skipped, and another sample of
\* the batch has its record.
C18_Witness ==
    \E s, t \in Samples :
        /\ ~fastq[s][1] \/ ~fastq[s][2]
        /\ pc[s] = "skipped"
        /\ pc[t] = "done"
        /\ metricsFile[t] /= NoFile

\* C19: the monitor task of a sample exists from before stage 1 begins
\* until the with block is left, no monitor exists before that, and the
\* steps after the with block (counts, auxiliary parses, record) are taken
\* only when the monitor task has ended.
C19_MonitorAroundStages ==
    \A s \in Samples :
        /\ pc[s] \in {"unsubmitted", "queued", "started", "set_tmp", "skipped"} =>
               mon[s] = "none"
        /\ pc[s] \in {"fq2bam_log", "fq2bam_cmd", "hc_log", "hc_cmd",
                      "join", "join_failed", "join_raised"} => mon[s] /= "none"
        /\ pc[s] \in {"derived", "persist", "done"} => mon[s] = "done"

\* Stage 2 of a sample is about to run while the sample's monitor task is
\* still running.
C19_Witness ==
    \E s \in Samples :
        /\ pc[s] = "hc_cmd"
        /\ mon[s] = "running"

\* ------------------------------------------------ SpecExtract, continued

\* C21: when parse_quality_reports has returned and one of the three report
\* files could not be read or parsed, its result holds none of
\* mean_insert_size, gc_bias and mean_quality.
C21_FailedReportGivesEmptyResult ==
    (qPc = "returned" /\ \E i \in 1..3 : reports[i] \in {"missing", "unreadable"}) =>
        \A k \in QualityKeys : quality_metrics[k] = NoMetric

\* ------------------------------------------------- SpecMerge, continued

\* C22: the merged report is a function of the set of per-sample files:
\* whatever order the listing gave the files in, the rows written are the
\* rows that the listing in file-name order gives (the same header, the
\* data rows in the same order).
C22_MergeIndependentOfListingOrder ==
    mgPc = "written" =>
        LET S == DOMAIN logFiles
            below(f) == Cardinality({ g \in S : g < f })
            byName == [i \in 1..Cardinality(S) |->
                         logFiles[CHOOSE f \in S : below(f) = i - 1]]
        IN merged_rows = merge_metrics(byName)

\* ------------------------------------------------------- Spec, continued

C24_ProbeFailureKeepsSample ==
    [][ \A s \in Samples :
          /\ pc[s] = "join" => pc'[s] \in {"join", "derived"}
          /\ (pc[s] = "derived" /\ pc'[s] = "failed") =>
                 count_aligned_reads(flagstat'[s]) = <<None, None>>
          /\ pc[s] = "persist" => pc'[s] \in {"persist", "done"}
          /\ (pc[s] = "persist" /\ pc'[s] = "done") =>
                 /\ metricsFile'[s] /= NoFile
                 /\ IF monResult[s] = <<None, None>>
                    THEN metricsFile'[s][15] = "" /\ metricsFile'[s][16] = ""
                    ELSE /\ metricsFile'[s][15] = ToString(monResult[s][1])
                         /\ metricsFile'[s][16] = ToString(monResult[s][2]) ]_vars

\* A sample whose probe failed is done, and its record has the two GPU
\* cells empty.
C24_Witness ==
    \E s \in Samples :
        /\ pc[s] = "done"
        /\ metricsFile[s] /= NoFile
        /\ metricsFile[s][15] = ""
        /\ metricsFile[s][16] = ""

\* The place of a point of process_sample in its text: the input check, the
\* start of the monitor, stage 1, stage 2, the end of the with block, the
\* alignment counts, the auxiliary parses with the record, and after them
\* the ways a sample ends.
StepRank(p) ==
    CASE p = "unsubmitted" -> 0
      [] p = "queued" -> 1
      [] p = "started" -> 2
      [] p = "set_tmp" -> 3
      [] p = "fq2bam_log" -> 4
      [] p = "fq2bam_cmd" -> 5
      [] p = "hc_log" -> 6
      [] p = "hc_cmd" -> 7
      [] p = "join" -> 8
      [] p = "derived" -> 9
      [] p = "persist" -> 10
      [] p = "done" -> 11
      [] p \in {"join_failed", "join_raised"} -> 12
      [] OTHER -> 13

\* C25: every step of a sample takes it to a later point of the sequence
\* input check, stage 1 (with the monitor), stage 2, alignment counts,
\* auxiliary parses and record, so no step is taken twice; the record is
\* written by the last step only, and once written it is not written again.
C25_StepsInOrderAtMostOnce ==
    [][ \A s \in Samples :
          /\ pc'[s] /= pc[s] => StepRank(pc'[s]) > StepRank(pc[s])
          /\ metricsFile'[s] /= metricsFile[s] =>
                 /\ metricsFile[s] = NoFile
                 /\ pc[s] = "persist"
                 /\ pc'[s] = "done"
          /\ pc'[s] = "done" => metricsFile'[s] /= NoFile /\ mon'[s] = "done" ]_vars

\* A sample has gone through every step and has its record, while another
\* sample is between its two stages.
C25_Witness ==
    \E s, t \in Samples :
        /\ pc[s] = "done"
        /\ handed[s] = 1
        /\ metricsFile[s] /= NoFile
        /\ pc[t] = "hc_log"

\* C26: wherever a sample's stage runner is about to run its invocation, a
\* non-zero exit of the invocation does not make the runner raise: the
\* runner returns (e.stderr, False), and process_sample ends the sample as
\* failed; and the step of a stage runner, however the invocation ends,
\* changes neither a per-sample record nor the merged report.
C26_NonZeroExitIsReturned ==
    [][ \A s \in Samples :
          (pc[s] \in {"fq2bam_cmd", "hc_cmd"} /\ pc'[s] /= pc[s]) =>
              /\ ~StageRaises(logDir[s], TMP_DIR, "nonzero")
              /\ StageReturn("nonzero") = <<"stderr", FALSE>>
              /\ pc'[s] = "join_failed" =>
                     /\ fq2bamRet'[s] = NoRet
                     /\ hcRet'[s] = NoRet
              /\ pc'[s] \in {"join_failed", "join_raised", "hc_log", "join"}
              /\ metricsFile' = metricsFile
              /\ merged' = merged ]_vars

\* A stage of one sample has reported failure while the record another
\* sample wrote before is in place.
C26_Witness ==
    \E s, t \in Samples :
        /\ pc[s] = "join_failed"
        /\ pc[t] = "done"
        /\ metricsFile[t] /= NoFile

\* C27: wherever a sample's stage runner is about to run its invocation, an
\* invocation that exits zero is returned as success with the log of this
\* invocation: the runner finds the log at the path it computed, whatever
\* the other samples have done in between.
C27_ZeroExitIsSuccess ==
    \A s \in Samples :
        pc[s] \in {"fq2bam_cmd", "hc_cmd"} =>
            /\ ~StageRaises(logDir[s], TMP_DIR, "zero")
            /\ StageReturn("zero") = <<"full_output", TRUE>>

\* ----------------------------------------------- SpecPipeline, continued

\* C28: pipeline_script.main reaches its cleanup, and has deleted the raw
\* BAM or the aligned BAM, only when the alignment stage and the
\* variant-calling stage have both returned success.
C28_CleanupOnlyAfterSuccess ==
    (\/ psPc \in {"cleanup_raw", "cleanup_out"}
     \/ \E i \in 1..Len(psLog) : psLog[i] \in {"deleted_raw_bam", "deleted_output_bam"})
        => /\ psFq2bam = <<"full_output", TRUE>>
           /\ psHc = <<"full_output", TRUE>>

\* ------------------------------------------------------- Spec, continued

\* C29: a sample whose process_sample has ended, however it ended, has no
\* running monitor task; as long as its monitor task runs, the sample is
\* inside process_sample and holds its worker.
C29_NoMonitorOutlivesSample ==
    \A s \in Samples :
        /\ Terminal(pc[s]) => mon[s] /= "running"
        /\ mon[s] = "running" => s \in Running

\* The stage of a sample has reported failure and the sample still holds
\* the only worker, its monitor running, while another sample is queued.
C29_Witness ==
    \E s, t \in Samples :
        /\ pc[s] = "join_failed"
        /\ mon[s] = "running"
        /\ pc[t] = "queued"
        /\ concurrent = 1

\* ---------------------------------------------------------------- SpecLive

DownloadFailed ==
    /\ psPc = "returned"
    /\ Len(psLog) > 0
    /\ psLog[Len(psLog)] = "download_failed"

\* C31: download_bam never leaves a partly written file under the final
\* name. Whenever <sample>.bam exists it holds the whole content; after a
\* failed download, which gives no path, the final name is absent; the final
\* name appears only by the rename of a completely written
\* <sample>.bam.incomplete; and a call that finds the final file present
\* goes on with it, writing and logging nothing.
C31_NoPartialFinalFile ==
    /\ []("raw_bam" \in files => chunks["raw_bam"] = NChunks)
    /\ [](DownloadFailed => "raw_bam" \notin files)
    /\ [][("raw_bam" \notin files /\ "raw_bam" \in files')
            => /\ psPc = "download_write"
               /\ "raw_bam.incomplete" \in files
               /\ chunks["raw_bam.incomplete"] = NChunks
               /\ "raw_bam.incomplete" \notin files']_vars
    /\ [][(psPc = "start" /\ "raw_bam" \in files)
            => /\ psPc' = "bam2fq"
               /\ UNCHANGED <<files, chunks, psLog>>]_vars

\* A download under way: part of the content is in the temporary file and
\* the final name is absent.
C31_Witness ==
    /\ psPc = "download_write"
    /\ "raw_bam.incomplete" \in files
    /\ chunks["raw_bam.incomplete"] >= 1
    /\ chunks["raw_bam.incomplete"] < NChunks
    /\ "raw_bam" \notin files

====
